---- MODULE Spec2Model ----
(***************************************************************************)
(* myfind: a recursive file-system walker that prints the entries matching *)
(* the filters given on the command line.                                  *)
(*                                                                         *)
(* Two walkers are modelled: the final draft (SearchFile/SearchDirectory,  *)
(* src/unnamed/part_000 lines 1-739) and the first draft (do_file/do_dir,  *)
(* src/myfind/myfind.c).  The walk is sequential and recursive; the model  *)
(* keeps an explicit call stack and takes one step per system call (lstat, *)
(* opendir, readdir, closedir); the code that runs between two system      *)
(* calls belongs to the step of the first.                                 *)
(*                                                                         *)
(* ParseCommandLineArgs is modelled with one step per round of its loop;   *)
(* CombinePath and ShouldPrintFileInformation are also called on their     *)
(* own, on arguments drawn from bounded sets.                              *)
(*                                                                         *)
(* The heap holds the blocks allocated and not yet freed.  In the walks    *)
(* on their own (Spec, SpecMyfind) every allocation succeeds; the whole    *)
(* program (SpecMain: main, the parse, the walk of the final draft) also   *)
(* takes the steps in which calloc, malloc or strdup returns NULL.         *)
(*                                                                         *)
(* Strings are sequences of one-character strings.  A char* that may be    *)
(* NULL is <<>> (NULL) or <<s>> (a pointer to the string s).               *)
(***************************************************************************)
EXTENDS Integers, Sequences, FiniteSets, TLC

\* Largest number of nodes of a file-system tree.
MaxNodes == 4
\* Largest number of failing system calls in one walk.
MaxFailures == 1
\* Largest number of command line arguments after the executable path.
MaxArgs == 3
\* Largest length of a path handed to CombinePath.
MaxLen == 3

VARIABLES
    tree,     \* the file system: its nodes, their parents, types, read order
    args,     \* struct Args, filled in before the walk and never changed
    stack,    \* the call stack of the walk, innermost call last
    out,      \* stdout: the lines printed so far
    diag,     \* stderr: the diagnostics printed so far
    fails,    \* history: the system calls that failed, in order
    streams,  \* the directory streams opened and not yet passed to closedir
    visited,  \* history: the nodes SearchFile / do_file was called for
    opened,   \* history: the nodes opendir was called for
    status,   \* the exit status of the process: <<>> while it runs
    heap,     \* the blocks of memory allocated and not yet freed
    call,     \* the arguments of a library function called on its own
    ret       \* its result: <<>> before the call, <<r>> after it

vars ==
    <<tree, args, stack, out, diag, fails, streams, visited, opened, status,
      heap, call, ret>>

-----------------------------------------------------------------------------
(* Strings and pointers *)

NULL == <<>>
Ptr(s) == <<s>>
Deref(p) == p[1]

SEP == "/"
DOT == <<".">>
DOTDOT == <<".", ".">>

Last(s) == s[Len(s)]
Front(s) == SubSeq(s, 1, Len(s) - 1)

-----------------------------------------------------------------------------
(* struct stat: the file types of st_mode, and enum FileTypes *)

S_IFBLK == "S_IFBLK"
S_IFCHR == "S_IFCHR"
S_IFDIR == "S_IFDIR"
S_IFIFO == "S_IFIFO"
S_IFREG == "S_IFREG"
S_IFLNK == "S_IFLNK"
S_IFSOCK == "S_IFSOCK"

StModes == {S_IFBLK, S_IFCHR, S_IFDIR, S_IFIFO, S_IFREG, S_IFLNK, S_IFSOCK}

S_ISBLK(m) == m = S_IFBLK
S_ISCHR(m) == m = S_IFCHR
\* A slip: a symbolic link is taken for a directory.
S_ISDIR_OrLink(m) == m = S_IFDIR \/ m = S_IFLNK
S_ISDIR(m) == m = S_IFDIR
S_ISFIFO(m) == m = S_IFIFO
S_ISREG(m) == m = S_IFREG
S_ISLNK(m) == m = S_IFLNK
S_ISSOCK(m) == m = S_IFSOCK

\* enum FileTypes is a set of bit flags; a value of it is the set of its flags.
BlockSpecialFile == "BlockSpecialFile"
CharacterSpecialFile == "CharacterSpecialFile"
Directory == "Directory"
NamedPipe == "NamedPipe"
RegularFile == "RegularFile"
SymbolicLink == "SymbolicLink"
Socket == "Socket"
None == {}

FileTypeFlags ==
    {BlockSpecialFile, CharacterSpecialFile, Directory, NamedPipe,
     RegularFile, SymbolicLink, Socket}

\* A slip: any flag of the set counts for the flag asked for.
HasFlag_AnySet(fileTypes, flag) == fileTypes # None

\* (fileTypes & flag) != 0
HasFlag(fileTypes, flag) == flag \in fileTypes

\* struct Args after calloc: every flag false, every pointer NULL.
ZeroArgs ==
    [searchPath |-> NULL,
     printInExtendedFormat |-> FALSE,
     filterByFileType |-> FALSE, fileTypes |-> None,
     filterByUserID |-> FALSE, userID |-> 0,
     filterForNoUser |-> FALSE,
     filterForNamePattern |-> FALSE, namePattern |-> NULL,
     filterForPathPattern |-> FALSE, pathPattern |-> NULL]

-----------------------------------------------------------------------------
(* CombinePath *)

\* A slip: a separator on both sides of the junction is kept twice.
CombinePath_BothKept(path1, path2) ==
    LET path1Len == Len(path1)
        path2Len == Len(path2)
        path1HasTrailingSlash == (path1Len > 0) /\ (path1[path1Len] = SEP)
        path2HasLeadingSlash == (path2Len > 0) /\ (path2[1] = SEP)
    IN  IF (path1Len = 0) /\ (path2Len = 0) THEN <<>>
        ELSE IF path1Len = 0 THEN path2
        ELSE IF path2Len = 0 THEN path1
        ELSE IF path1HasTrailingSlash \/ path2HasLeadingSlash
             THEN path1 \o path2
        ELSE path1 \o <<SEP>> \o path2

\* A slip: the empty operands are not set apart.
CombinePath_NoEmptyCase(path1, path2) ==
    LET path1Len == Len(path1)
        path2Len == Len(path2)
        path1HasTrailingSlash == (path1Len > 0) /\ (path1[path1Len] = SEP)
        path2HasLeadingSlash == (path2Len > 0) /\ (path2[1] = SEP)
    IN  IF path1HasTrailingSlash /\ path2HasLeadingSlash
             THEN SubSeq(path1, 1, path1Len - 1) \o path2
        ELSE IF path1HasTrailingSlash \/ path2HasLeadingSlash
             THEN path1 \o path2
        ELSE path1 \o <<SEP>> \o path2

\* A slip: with no separator at the junction two are inserted.
CombinePath_SeparatorTwice(path1, path2) ==
    LET path1Len == Len(path1)
        path2Len == Len(path2)
        path1HasTrailingSlash == (path1Len > 0) /\ (path1[path1Len] = SEP)
        path2HasLeadingSlash == (path2Len > 0) /\ (path2[1] = SEP)
    IN  IF (path1Len = 0) /\ (path2Len = 0) THEN <<>>
        ELSE IF path1Len = 0 THEN path2
        ELSE IF path2Len = 0 THEN path1
        ELSE IF path1HasTrailingSlash /\ path2HasLeadingSlash
             THEN SubSeq(path1, 1, path1Len - 1) \o path2
        ELSE IF path1HasTrailingSlash \/ path2HasLeadingSlash
             THEN path1 \o path2
        ELSE path1 \o <<SEP, SEP>> \o path2

CombinePath(path1, path2) ==
    LET path1Len == Len(path1)
        path2Len == Len(path2)
        path1HasTrailingSlash == (path1Len > 0) /\ (path1[path1Len] = SEP)
        path2HasLeadingSlash == (path2Len > 0) /\ (path2[1] = SEP)
    IN  IF (path1Len = 0) /\ (path2Len = 0) THEN <<>>
        ELSE IF path1Len = 0 THEN path2
        ELSE IF path2Len = 0 THEN path1
        ELSE IF path1HasTrailingSlash /\ path2HasLeadingSlash
             THEN SubSeq(path1, 1, path1Len - 1) \o path2
        ELSE IF path1HasTrailingSlash \/ path2HasLeadingSlash
             THEN path1 \o path2
        ELSE path1 \o <<SEP>> \o path2

-----------------------------------------------------------------------------
(* The linked list of file names *)

\* A plausible slip: the new node is linked in at the head of the list.
AddListNode_AtHead(head, fileName) == <<fileName>> \o head

\* A slip: the new node becomes the head whether the list is empty or not.
AddListNode_Replace(head, fileName) == <<fileName>>

\* The list is the sequence of its file names; the new node goes to the tail.
AddListNode(head, fileName) == Append(head, fileName)

\* After FreeList *head is NULL.
FreeList(head) == <<>>

-----------------------------------------------------------------------------
(* ShouldPrintFileInformation and PrintFileInformation (final draft) *)

\* A slip: with no filter active nothing is printed.
ShouldPrintFileInformation_DefaultFalse(filePath, fileInformation, a) ==
    IF a.filterByFileType
    THEN \/ S_ISBLK(fileInformation.st_mode) /\ HasFlag(a.fileTypes, BlockSpecialFile)
         \/ S_ISCHR(fileInformation.st_mode) /\ HasFlag(a.fileTypes, CharacterSpecialFile)
         \/ S_ISDIR(fileInformation.st_mode) /\ HasFlag(a.fileTypes, Directory)
         \/ S_ISFIFO(fileInformation.st_mode) /\ HasFlag(a.fileTypes, NamedPipe)
         \/ S_ISREG(fileInformation.st_mode) /\ HasFlag(a.fileTypes, RegularFile)
         \/ S_ISLNK(fileInformation.st_mode) /\ HasFlag(a.fileTypes, SymbolicLink)
         \/ S_ISSOCK(fileInformation.st_mode) /\ HasFlag(a.fileTypes, Socket)
    ELSE IF a.filterByUserID THEN fileInformation.st_uid = a.userID
    ELSE IF a.filterForNoUser THEN FALSE
    ELSE IF a.filterForNamePattern THEN FALSE
    ELSE IF a.filterForPathPattern THEN FALSE
    ELSE FALSE

\* A slip: the owner filter accepts the entries of every other owner.
ShouldPrintFileInformation_OwnerDiffers(filePath, fileInformation, a) ==
    IF a.filterByFileType
    THEN \/ S_ISBLK(fileInformation.st_mode) /\ HasFlag(a.fileTypes, BlockSpecialFile)
         \/ S_ISCHR(fileInformation.st_mode) /\ HasFlag(a.fileTypes, CharacterSpecialFile)
         \/ S_ISDIR(fileInformation.st_mode) /\ HasFlag(a.fileTypes, Directory)
         \/ S_ISFIFO(fileInformation.st_mode) /\ HasFlag(a.fileTypes, NamedPipe)
         \/ S_ISREG(fileInformation.st_mode) /\ HasFlag(a.fileTypes, RegularFile)
         \/ S_ISLNK(fileInformation.st_mode) /\ HasFlag(a.fileTypes, SymbolicLink)
         \/ S_ISSOCK(fileInformation.st_mode) /\ HasFlag(a.fileTypes, Socket)
    ELSE IF a.filterByUserID THEN fileInformation.st_uid # a.userID
    ELSE IF a.filterForNoUser THEN FALSE
    ELSE IF a.filterForNamePattern THEN FALSE
    ELSE IF a.filterForPathPattern THEN FALSE
    ELSE TRUE

ShouldPrintFileInformation(filePath, fileInformation, a) ==
    IF a.filterByFileType
    THEN \/ S_ISBLK(fileInformation.st_mode) /\ HasFlag(a.fileTypes, BlockSpecialFile)
         \/ S_ISCHR(fileInformation.st_mode) /\ HasFlag(a.fileTypes, CharacterSpecialFile)
         \/ S_ISDIR(fileInformation.st_mode) /\ HasFlag(a.fileTypes, Directory)
         \/ S_ISFIFO(fileInformation.st_mode) /\ HasFlag(a.fileTypes, NamedPipe)
         \/ S_ISREG(fileInformation.st_mode) /\ HasFlag(a.fileTypes, RegularFile)
         \/ S_ISLNK(fileInformation.st_mode) /\ HasFlag(a.fileTypes, SymbolicLink)
         \/ S_ISSOCK(fileInformation.st_mode) /\ HasFlag(a.fileTypes, Socket)
    ELSE IF a.filterByUserID THEN fileInformation.st_uid = a.userID
    ELSE IF a.filterForNoUser THEN FALSE
    ELSE IF a.filterForNamePattern THEN FALSE
    ELSE IF a.filterForPathPattern THEN FALSE
    ELSE TRUE

\* A line of stdout: the path printed and, as history, the inode of the
\* entry it was printed for.
Line(filePath, fileInformation) ==
    [path |-> filePath, ino |-> fileInformation.st_ino]

\* stdout after the call: the extended format prints nothing.
PrintFileInformation(filePath, fileInformation, a, o) ==
    IF a.printInExtendedFormat THEN o
    ELSE Append(o, Line(filePath, fileInformation))

\* PrintFileInformation of the first draft: no filter, the path is printed.
PrintFileInformation0(filePath, fileInformation, o) ==
    Append(o, Line(filePath, fileInformation))

-----------------------------------------------------------------------------
(* The file system the system calls act on *)

Nodes == 1..tree.n
ROOT == 1

\* The name of a node in its directory (no name holds a separator).
NameChars == <<"r", "a", "b", "c", "d", "e", "f", "g">>
NameOf(n) == IF n = 3 THEN <<".", NameChars[n]>> ELSE <<NameChars[n]>>

\* The owner of a node.
OwnerOf(n) == n % 2

\* The target of the symbolic link n: the node created before it (its
\* parent, a sibling or another node); the link of the root dangles.
LinkTarget(n) == n - 1

\* The node a path that names n leads to when symbolic links are followed
\* (0: no node).
RECURSIVE Resolve(_)
Resolve(n) ==
    IF n = 0 THEN 0
    ELSE IF tree.type[n] = S_IFLNK THEN Resolve(LinkTarget(n))
    ELSE n

Children(d) == {c \in Nodes : tree.parent[c] = d}

RECURSIVE Ascending(_)
Ascending(S) ==
    IF S = {} THEN <<>>
    ELSE LET m == CHOOSE x \in S : \A y \in S : x <= y
         IN  <<m>> \o Ascending(S \ {m})

Reverse(s) == [i \in 1..Len(s) |-> s[Len(s) + 1 - i]]

Dirent(name, n) == [d_name |-> name, node |-> n]

\* What successive readdir calls on directory d return before the end of the
\* stream.  The order is the file system's: either "." and ".." first and
\* the entries in creation order, or the entries in reverse creation order
\* with "." after the first of them and ".." last.
Listing(d) ==
    LET kids == Ascending(Children(d))
        ents == [i \in 1..Len(kids) |-> Dirent(NameOf(kids[i]), kids[i])]
        dot == Dirent(DOT, d)
        dotdot == Dirent(DOTDOT, tree.parent[d])
    IN  IF tree.order = 1 THEN <<dot, dotdot>> \o ents
        ELSE IF ents = <<>> THEN <<dot, dotdot>>
        ELSE <<Reverse(ents)[1], dot>> \o Tail(Reverse(ents)) \o <<dotdot>>

\* The node the path CombinePath(directory d, name) names (0: none).
Lookup(d, name) ==
    LET r == Resolve(d)
        hit == {c \in Children(r) : NameOf(c) = name}
    IN  IF r = 0 THEN 0
        ELSE IF name = DOT THEN r
        ELSE IF name = DOTDOT THEN tree.parent[r]
        ELSE IF hit = {} THEN 0
        ELSE CHOOSE c \in hit : TRUE

\* A slip: stat for lstat, which reports on the target of a symbolic link.
Stat(n) ==
    LET r == IF Resolve(n) = 0 THEN n ELSE Resolve(n)
    IN  [st_mode |-> tree.type[r], st_uid |-> OwnerOf(r), st_ino |-> r]

\* What lstat stores for node n: the node's own type, owner and inode.
Lstat(n) == [st_mode |-> tree.type[n], st_uid |-> OwnerOf(n), st_ino |-> n]

\* The trees of n nodes: node 1 is the root; the directory of a node is the
\* root or the node created just before it, and is a directory.
TreesOfSize(n) ==
    {t \in [n : {n},
            parent : [1..n -> 0..(n - 1)],
            type : [1..n -> {S_IFDIR, S_IFREG, S_IFLNK}],
            order : {1, 2}] :
        /\ t.parent[1] = 0
        /\ \A i \in 2..n : /\ t.parent[i] >= 1
                           /\ t.parent[i] \in {ROOT, i - 1}
                           /\ t.type[t.parent[i]] = S_IFDIR}

Trees == UNION {TreesOfSize(n) : n \in 1..MaxNodes}

-----------------------------------------------------------------------------
(* The call stack *)

\* A call in progress: the function, where it stands, its path argument and
\* the node the path names; for SearchDirectory / do_dir the list head, the
\* number of entries the stream has returned and the list node reached.
Frame(fn, pc, path, node) ==
    [fn |-> fn, pc |-> pc, path |-> path, node |-> node,
     head |-> <<>>, pos |-> 0, cur |-> 0]

Top == stack[Len(stack)]
AtTop(fn, pc) == /\ stack # <<>>
                 /\ Top.fn = fn
                 /\ Top.pc = pc
Pop(k) == SubSeq(stack, 1, Len(stack) - k)
SetTop(f) == [stack EXCEPT ![Len(stack)] = f]

\* A line on stderr: the failing operation and the path it names.
Diagnostic(op, path) == [op |-> op, path |-> path]
\* A failed system call: the operation, the node, the entries read before.
Failure(op, node, k) == [op |-> op, node |-> node, k |-> k]

\* The system call about to be made may fail.
MayFail == Len(fails) < MaxFailures

\* The directory stream of the innermost call.
Stream == Len(stack)

\* The path names a directory opendir can open.
IsDirectory(n) == Resolve(n) # 0 /\ tree.type[Resolve(n)] = S_IFDIR

\* A slip: a name that merely starts with "." is taken for "." or "..".
IsDotEntry_Prefix(d_name) == d_name[1] = "."

\* strcmp(d_name, ".") == 0 || strcmp(d_name, "..") == 0
IsDotEntry(d_name) == (d_name = DOT) \/ (d_name = DOTDOT)

\* main: the search path is args->searchPath, or "." when there is none.
SearchPath(a) == IF a.searchPath = NULL THEN DOT ELSE Deref(a.searchPath)

-----------------------------------------------------------------------------
(* The heap *)

\* A block obtained from calloc, malloc or strdup: what it holds, the depth
\* of the call that obtained it, the directory that call searches, and the
\* place in that call's list of the node it belongs to.
Block(kind, depth, dir, idx) ==
    [kind |-> kind, depth |-> depth, dir |-> dir, idx |-> idx]

\* struct Args, allocated by main.
ArgsBlock == Block("Args", 1, 0, 0)

\* The blocks of list head of the call at depth depth: for every node the
\* struct FileNode and the copy of the file name (none when it is NULL).
ListBlocks(depth, dir, head) ==
    {Block("FileNode", depth, dir, i) : i \in DOMAIN head}
       \cup {Block("fileName", depth, dir, i) :
                i \in {j \in DOMAIN head : head[j] # NULL}}

\* The path CombinePath builds for node idx of the list.
PathBlock(depth, dir, idx) == Block("filePath", depth, dir, idx)

-----------------------------------------------------------------------------
(* The walk of the final draft: SearchFile and SearchDirectory *)

\* The program runs on from a point between two system calls, with call
\* stack stk, visit history vis and heap hp, up to its next system call.
\*
\* Iterate: SearchDirectory is at the head of its loop over the list, at
\* node cur.  node != NULL: the path of the entry is built and SearchFile
\* is called for it (which is about to call lstat); a node whose file name
\* is NULL stops the program here, before CombinePath is called with it.
\* node == NULL: the list is freed, SearchDirectory returns and so does
\* the SearchFile that called it.
\*
\* Resume: SearchFile has returned.  To main: free(args); return 0.  To
\* SearchDirectory: the path is freed, node = node->next, and the loop
\* goes round.
RECURSIVE Resume(_, _, _), Iterate(_, _, _)
Iterate(stk, vis, hp) ==
    LET top == stk[Len(stk)]
    IN  IF top.cur <= Len(top.head)
        THEN LET fileName == top.head[top.cur]
                 filePath == CombinePath(top.path, fileName)
                 child == Lookup(top.node, fileName)
             IN  IF fileName = NULL
                 THEN [stack |-> stk, visited |-> vis, status |-> <<>>,
                       heap |-> hp]
                 ELSE [stack |-> Append(stk, Frame("SearchFile", "lstat",
                                                   filePath, child)),
                       visited |-> Append(vis, child),
                       status |-> <<>>,
                       heap |-> hp \cup {PathBlock(Len(stk), top.node, top.cur)}]
        ELSE Resume(SubSeq(stk, 1, Len(stk) - 2), vis,
                    hp \ ListBlocks(Len(stk), top.node, top.head))
Resume(stk, vis, hp) ==
    LET top == stk[Len(stk)]
    IN  IF top.fn = "main"
        THEN [stack |-> <<>>, visited |-> vis, status |-> <<0>>,
              heap |-> hp \ {ArgsBlock}]
        ELSE Iterate([stk EXCEPT ![Len(stk)].cur = top.cur + 1], vis,
                     hp \ {PathBlock(Len(stk), top.node, top.cur)})

\* The step ends with SearchFile returning to the call on top of stk.
Continue(stk) ==
    LET r == Resume(stk, visited, heap)
    IN  /\ stack' = r.stack
        /\ visited' = r.visited
        /\ status' = r.status
        /\ heap' = r.heap

\* The step ends with SearchDirectory, on top of stk, entering its loop
\* over the list.
StartLoop(stk) ==
    LET r == Iterate(stk, visited, heap)
    IN  /\ stack' = r.stack
        /\ visited' = r.visited
        /\ status' = r.status
        /\ heap' = r.heap

\* A slip: a failed lstat is ignored and the entry is taken for a directory.
SearchFile_LstatFails_Ignored ==
    /\ AtTop("SearchFile", "lstat")
    /\ MayFail \/ Top.node = 0
    /\ diag' = Append(diag, Diagnostic("lstat", Top.path))
    /\ fails' = Append(fails, Failure("lstat", Top.node, 0))
    /\ stack' = Append(SetTop([Top EXCEPT !.pc = "return"]),
                       Frame("SearchDirectory", "opendir", Top.path, Top.node))
    /\ UNCHANGED <<tree, args, out, streams, visited, opened, status, call, ret, heap>>

\* SearchFile: lstat returns -1; a diagnostic is printed and SearchFile
\* returns.
SearchFile_LstatFails ==
    /\ AtTop("SearchFile", "lstat")
    /\ MayFail \/ Top.node = 0
    /\ diag' = Append(diag, Diagnostic("lstat", Top.path))
    /\ fails' = Append(fails, Failure("lstat", Top.node, 0))
    /\ Continue(Pop(1))
    /\ UNCHANGED <<tree, args, out, streams, opened, call, ret>>

\* A slip: only an entry that is printed is descended into.
SearchFile_Lstat_MatchedOnly ==
    /\ AtTop("SearchFile", "lstat")
    /\ Top.node # 0
    /\ LET fileInfo == Lstat(Top.node)
           matched == ShouldPrintFileInformation(Top.path, fileInfo, args)
       IN  /\ out' = IF matched
                     THEN PrintFileInformation(Top.path, fileInfo, args, out)
                     ELSE out
           /\ IF matched /\ S_ISDIR(fileInfo.st_mode)
              THEN /\ stack' = Append(SetTop([Top EXCEPT !.pc = "return"]),
                                      Frame("SearchDirectory", "opendir",
                                            Top.path, Top.node))
                   /\ UNCHANGED <<visited, status, heap>>
              ELSE Continue(Pop(1))
    /\ UNCHANGED <<tree, args, diag, fails, streams, opened, call, ret>>

\* SearchFile: lstat succeeds; the entry is printed if it should be, and
\* SearchDirectory is called for a directory (it is about to call opendir).
SearchFile_Lstat ==
    /\ AtTop("SearchFile", "lstat")
    /\ Top.node # 0
    /\ LET fileInfo == Lstat(Top.node)
       IN  /\ out' = IF ShouldPrintFileInformation(Top.path, fileInfo, args)
                     THEN PrintFileInformation(Top.path, fileInfo, args, out)
                     ELSE out
           /\ IF S_ISDIR(fileInfo.st_mode)
              THEN /\ stack' = Append(SetTop([Top EXCEPT !.pc = "return"]),
                                      Frame("SearchDirectory", "opendir",
                                            Top.path, Top.node))
                   /\ UNCHANGED <<visited, status, heap>>
              ELSE Continue(Pop(1))
    /\ UNCHANGED <<tree, args, diag, fails, streams, opened, call, ret>>

\* A slip: an opendir failure ends the process.
SearchDirectory_OpendirFails_Exit ==
    /\ AtTop("SearchDirectory", "opendir")
    /\ MayFail \/ ~IsDirectory(Top.node)
    /\ opened' = Append(opened, Top.node)
    /\ diag' = Append(diag, Diagnostic("opendir", Top.path))
    /\ fails' = Append(fails, Failure("opendir", Top.node, 0))
    /\ stack' = <<>>
    /\ status' = <<-1>>
    /\ UNCHANGED <<tree, args, out, streams, visited, call, ret, heap>>

\* SearchDirectory: opendir returns NULL; a diagnostic is printed and
\* SearchDirectory returns.
SearchDirectory_OpendirFails ==
    /\ AtTop("SearchDirectory", "opendir")
    /\ MayFail \/ ~IsDirectory(Top.node)
    /\ opened' = Append(opened, Top.node)
    /\ diag' = Append(diag, Diagnostic("opendir", Top.path))
    /\ fails' = Append(fails, Failure("opendir", Top.node, 0))
    /\ Continue(Pop(2))
    /\ UNCHANGED <<tree, args, out, streams, call, ret>>

\* SearchDirectory: opendir succeeds; head = NULL and the loop is entered.
SearchDirectory_Opendir ==
    /\ AtTop("SearchDirectory", "opendir")
    /\ IsDirectory(Top.node)
    /\ opened' = Append(opened, Top.node)
    /\ streams' = streams \cup {Stream}
    /\ stack' = SetTop([Top EXCEPT !.pc = "readdir", !.head = <<>>, !.pos = 0])
    /\ UNCHANGED <<tree, args, out, diag, fails, visited, status, call, ret, heap>>

\* SearchDirectory: readdir returns an entry; "." and ".." are skipped, any
\* other name is added to the list.
SearchDirectory_Readdir ==
    /\ AtTop("SearchDirectory", "readdir")
    /\ Top.pos < Len(Listing(Resolve(Top.node)))
    /\ LET directoryInfo == Listing(Resolve(Top.node))[Top.pos + 1]
       IN  stack' = SetTop([Top EXCEPT
                        !.pos = Top.pos + 1,
                        !.head = IF IsDotEntry(directoryInfo.d_name)
                                 THEN Top.head
                                 ELSE AddListNode(Top.head, directoryInfo.d_name)])
    /\ heap' = heap \cup ListBlocks(Len(stack), Top.node, stack'[Len(stack)].head)
    /\ UNCHANGED <<tree, args, out, diag, fails, streams, visited, opened, status, call, ret>>

\* SearchDirectory: readdir returns NULL and errno is 0, the end of the
\* stream; the loop ends and closedir is next.
SearchDirectory_ReaddirEnd ==
    /\ AtTop("SearchDirectory", "readdir")
    /\ Top.pos = Len(Listing(Resolve(Top.node)))
    /\ stack' = SetTop([Top EXCEPT !.pc = "closedir"])
    /\ UNCHANGED <<tree, args, out, diag, fails, streams, visited, opened, status, call, ret, heap>>

\* A slip: a read failure drops the names collected so far.
SearchDirectory_ReaddirFails_Drop ==
    /\ AtTop("SearchDirectory", "readdir")
    /\ MayFail
    /\ diag' = Append(diag, Diagnostic("readdir", Top.path))
    /\ fails' = Append(fails, Failure("readdir", Top.node, Top.pos))
    /\ stack' = SetTop([Top EXCEPT !.pc = "closedir", !.head = FreeList(Top.head)])
    /\ heap' = heap \ ListBlocks(Len(stack), Top.node, Top.head)
    /\ UNCHANGED <<tree, args, out, streams, visited, opened, status, call, ret>>

\* SearchDirectory: readdir returns NULL and errno is set; a diagnostic is
\* printed, the loop ends and closedir is next.
SearchDirectory_ReaddirFails ==
    /\ AtTop("SearchDirectory", "readdir")
    /\ MayFail
    /\ diag' = Append(diag, Diagnostic("readdir", Top.path))
    /\ fails' = Append(fails, Failure("readdir", Top.node, Top.pos))
    /\ stack' = SetTop([Top EXCEPT !.pc = "closedir"])
    /\ UNCHANGED <<tree, args, out, streams, visited, opened, status, call, ret, heap>>

\* A slip: the loop over the list starts with the directory still open.
SearchDirectory_Closedir_Late ==
    /\ AtTop("SearchDirectory", "closedir")
    /\ StartLoop(SetTop([Top EXCEPT !.pc = "iterate", !.cur = 1]))
    /\ UNCHANGED <<tree, args, out, diag, fails, streams, opened, call, ret>>

\* SearchDirectory: closedir returns 0; the loop over the list starts.
SearchDirectory_Closedir ==
    /\ AtTop("SearchDirectory", "closedir")
    /\ streams' = streams \ {Stream}
    /\ StartLoop(SetTop([Top EXCEPT !.pc = "iterate", !.cur = 1]))
    /\ UNCHANGED <<tree, args, out, diag, fails, opened, call, ret>>

\* SearchDirectory: closedir returns -1 (the stream is gone all the same:
\* closedir releases it whatever it returns); a diagnostic is printed and
\* SearchDirectory returns without searching the names it collected.
SearchDirectory_ClosedirFails ==
    /\ AtTop("SearchDirectory", "closedir")
    /\ MayFail
    /\ streams' = streams \ {Stream}
    /\ diag' = Append(diag, Diagnostic("closedir", Top.path))
    /\ fails' = Append(fails, Failure("closedir", Top.node, Top.pos))
    /\ Continue(Pop(2))
    /\ UNCHANGED <<tree, args, out, opened, call, ret>>

\* The configurations the walks are run with.
WalkArgs ==
    {ZeroArgs,
     [ZeroArgs EXCEPT !.searchPath = Ptr(<<"r">>), !.printInExtendedFormat = TRUE],
     [ZeroArgs EXCEPT !.searchPath = Ptr(<<"r", SEP>>), !.filterByFileType = TRUE,
                      !.fileTypes = {Directory}],
     [ZeroArgs EXCEPT !.searchPath = Ptr(<<"r">>), !.filterByFileType = TRUE,
                      !.fileTypes = {RegularFile, SymbolicLink}]}

\* main has parsed its arguments and has called SearchFile for the search
\* path; nothing is printed, no stream is open.
Init ==
    /\ tree \in Trees
    /\ args \in WalkArgs
    /\ stack = <<Frame("main", "return", <<>>, 0),
                 Frame("SearchFile", "lstat", SearchPath(args), ROOT)>>
    /\ out = <<>>
    /\ diag = <<>>
    /\ fails = <<>>
    /\ streams = {}
    /\ visited = <<ROOT>>
    /\ opened = <<>>
    /\ status = <<>>
    /\ heap = {ArgsBlock}
    /\ call = <<>>
    /\ ret = <<>>

Next ==
    \/ SearchFile_LstatFails
    \/ SearchFile_Lstat
    \/ SearchDirectory_OpendirFails
    \/ SearchDirectory_Opendir
    \/ SearchDirectory_Readdir
    \/ SearchDirectory_ReaddirEnd
    \/ SearchDirectory_ReaddirFails
    \/ SearchDirectory_Closedir
    \/ SearchDirectory_ClosedirFails

Spec == Init /\ [][Next]_vars

\* The process has ended.
Done == stack = <<>>

-----------------------------------------------------------------------------
(* The walk of the first draft (src/myfind/myfind.c): do_file and do_dir *)

\* The program runs on from a point between two system calls: main, after
\* do_file has returned, returns 0; do_dir, after do_file has returned,
\* goes round its loop and is about to call readdir again.
Resume0(stk, vis, hp) ==
    LET top == stk[Len(stk)]
    IN  IF top.fn = "main"
        THEN [stack |-> <<>>, visited |-> vis, status |-> <<0>>, heap |-> hp]
        ELSE [stack |-> stk, visited |-> vis, status |-> <<>>,
              heap |-> hp \ {PathBlock(Len(stk), top.node, top.pos)}]

Continue0(stk) ==
    LET r == Resume0(stk, visited, heap)
    IN  /\ stack' = r.stack
        /\ visited' = r.visited
        /\ status' = r.status
        /\ heap' = r.heap

\* do_file: lstat returns -1; a diagnostic is printed and do_file returns.
do_file_LstatFails ==
    /\ AtTop("do_file", "lstat")
    /\ MayFail \/ Top.node = 0
    /\ diag' = Append(diag, Diagnostic("lstat", Top.path))
    /\ fails' = Append(fails, Failure("lstat", Top.node, 0))
    /\ Continue0(Pop(1))
    /\ UNCHANGED <<tree, args, out, streams, opened, call, ret>>

\* do_file: lstat succeeds; the entry is printed and do_dir is called for a
\* directory (it is about to call opendir).
do_file_Lstat ==
    /\ AtTop("do_file", "lstat")
    /\ Top.node # 0
    /\ LET fileInfo == Lstat(Top.node)
       IN  /\ out' = PrintFileInformation0(Top.path, fileInfo, out)
           /\ IF S_ISDIR(fileInfo.st_mode)
              THEN /\ stack' = Append(SetTop([Top EXCEPT !.pc = "return"]),
                                      Frame("do_dir", "opendir", Top.path, Top.node))
                   /\ UNCHANGED <<visited, status, heap>>
              ELSE Continue0(Pop(1))
    /\ UNCHANGED <<tree, args, diag, fails, streams, opened, call, ret>>

\* do_dir: opendir returns NULL; a diagnostic is printed and do_dir returns.
do_dir_OpendirFails ==
    /\ AtTop("do_dir", "opendir")
    /\ MayFail \/ ~IsDirectory(Top.node)
    /\ opened' = Append(opened, Top.node)
    /\ diag' = Append(diag, Diagnostic("opendir", Top.path))
    /\ fails' = Append(fails, Failure("opendir", Top.node, 0))
    /\ Continue0(Pop(2))
    /\ UNCHANGED <<tree, args, out, streams, call, ret>>

\* do_dir: opendir succeeds and the loop is entered.
do_dir_Opendir ==
    /\ AtTop("do_dir", "opendir")
    /\ IsDirectory(Top.node)
    /\ opened' = Append(opened, Top.node)
    /\ streams' = streams \cup {Stream}
    /\ stack' = SetTop([Top EXCEPT !.pc = "readdir", !.pos = 0])
    /\ UNCHANGED <<tree, args, out, diag, fails, visited, status, call, ret, heap>>

\* do_dir: readdir returns an entry; "." and ".." are skipped; for any other
\* name the path is built and do_file is called for it inside the loop,
\* before closedir.
do_dir_Readdir ==
    /\ AtTop("do_dir", "readdir")
    /\ Top.pos < Len(Listing(Resolve(Top.node)))
    /\ LET directoryInfo == Listing(Resolve(Top.node))[Top.pos + 1]
           filePath == CombinePath(Top.path, directoryInfo.d_name)
           child == Lookup(Top.node, directoryInfo.d_name)
           next == SetTop([Top EXCEPT !.pos = Top.pos + 1])
       IN  IF IsDotEntry(directoryInfo.d_name)
           THEN /\ stack' = next
                /\ UNCHANGED <<visited, heap>>
           ELSE /\ stack' = Append(next, Frame("do_file", "lstat", filePath, child))
                /\ visited' = Append(visited, child)
                /\ heap' = heap \cup {PathBlock(Len(stack), Top.node, Top.pos + 1)}
    /\ UNCHANGED <<tree, args, out, diag, fails, streams, opened, status, call, ret>>

\* do_dir: readdir returns NULL and errno is 0; the loop ends.
do_dir_ReaddirEnd ==
    /\ AtTop("do_dir", "readdir")
    /\ Top.pos = Len(Listing(Resolve(Top.node)))
    /\ stack' = SetTop([Top EXCEPT !.pc = "closedir"])
    /\ UNCHANGED <<tree, args, out, diag, fails, streams, visited, opened, status, call, ret, heap>>

\* do_dir: readdir returns NULL and errno is set; a diagnostic is printed
\* and the loop ends.
do_dir_ReaddirFails ==
    /\ AtTop("do_dir", "readdir")
    /\ MayFail
    /\ diag' = Append(diag, Diagnostic("readdir", Top.path))
    /\ fails' = Append(fails, Failure("readdir", Top.node, Top.pos))
    /\ stack' = SetTop([Top EXCEPT !.pc = "closedir"])
    /\ UNCHANGED <<tree, args, out, streams, visited, opened, status, call, ret, heap>>

\* do_dir: closedir returns 0 and do_dir returns.
do_dir_Closedir ==
    /\ AtTop("do_dir", "closedir")
    /\ streams' = streams \ {Stream}
    /\ Continue0(Pop(2))
    /\ UNCHANGED <<tree, args, out, diag, fails, opened, call, ret>>

\* do_dir: closedir returns -1; a diagnostic is printed and do_dir returns.
do_dir_ClosedirFails ==
    /\ AtTop("do_dir", "closedir")
    /\ MayFail
    /\ streams' = streams \ {Stream}
    /\ diag' = Append(diag, Diagnostic("closedir", Top.path))
    /\ fails' = Append(fails, Failure("closedir", Top.node, Top.pos))
    /\ Continue0(Pop(2))
    /\ UNCHANGED <<tree, args, out, opened, call, ret>>

\* main of the first draft has called do_file for argv[1], or for "." when
\* there is no argument.
InitMyfind ==
    /\ tree \in Trees
    /\ args \in {ZeroArgs, [ZeroArgs EXCEPT !.searchPath = Ptr(<<"r", SEP>>)]}
    /\ stack = <<Frame("main", "return", <<>>, 0),
                 Frame("do_file", "lstat", SearchPath(args), ROOT)>>
    /\ out = <<>>
    /\ diag = <<>>
    /\ fails = <<>>
    /\ streams = {}
    /\ visited = <<ROOT>>
    /\ opened = <<>>
    /\ status = <<>>
    /\ heap = {}
    /\ call = <<>>
    /\ ret = <<>>

NextMyfind ==
    \/ do_file_LstatFails
    \/ do_file_Lstat
    \/ do_dir_OpendirFails
    \/ do_dir_Opendir
    \/ do_dir_Readdir
    \/ do_dir_ReaddirEnd
    \/ do_dir_ReaddirFails
    \/ do_dir_Closedir
    \/ do_dir_ClosedirFails

SpecMyfind == InitMyfind /\ [][NextMyfind]_vars

-----------------------------------------------------------------------------
(* ShouldPrintFileInformation called on its own *)

\* The user IDs of the entries; only the first two belong to an account.
UserIDs == {0, 1, 2}
KnownUserIDs == {0, 1}

\* The entries the predicate is applied to: a path and what lstat stored.
PredPaths == {<<"r">>, <<"r", SEP, "a", "b">>, <<"a", SEP, "b">>}
PredCalls ==
    [filePath : PredPaths,
     fileInformation : [st_mode : StModes, st_uid : UserIDs, st_ino : {1}]]

\* The configurations: any subset of the five filters active, each active
\* filter with one of a few values, the members of an inactive one as calloc
\* left them.
PredArgs ==
    {[ZeroArgs EXCEPT
         !.filterByFileType = byType,
         !.fileTypes = IF byType THEN fileTypes ELSE None,
         !.filterByUserID = byUser,
         !.userID = IF byUser THEN userID ELSE 0,
         !.filterForNoUser = noUser,
         !.filterForNamePattern = byName,
         !.namePattern = IF byName THEN Ptr(namePattern) ELSE NULL,
         !.filterForPathPattern = byPath,
         !.pathPattern = IF byPath THEN Ptr(<<"r", "*">>) ELSE NULL] :
       byType \in BOOLEAN, byUser \in BOOLEAN, noUser \in BOOLEAN,
       byName \in BOOLEAN, byPath \in BOOLEAN,
       fileTypes \in {None, {Directory}, {RegularFile, SymbolicLink, Socket},
                      {BlockSpecialFile, CharacterSpecialFile, NamedPipe}},
       userID \in {0, 2},
       namePattern \in {<<"a", "*">>, <<"?">>}}

InitPred ==
    /\ tree = [n |-> 1, parent |-> <<0>>, type |-> <<S_IFREG>>, order |-> 1]
    /\ args \in PredArgs
    /\ call \in PredCalls
    /\ ret = <<>>
    /\ stack = <<>>
    /\ out = <<>>
    /\ diag = <<>>
    /\ fails = <<>>
    /\ streams = {}
    /\ visited = <<>>
    /\ opened = <<>>
    /\ status = <<>>
    /\ heap = {}

Call_ShouldPrintFileInformation ==
    /\ ret = <<>>
    /\ call # <<>>
    /\ ret' = <<ShouldPrintFileInformation(call.filePath, call.fileInformation, args)>>
    /\ UNCHANGED <<tree, args, stack, out, diag, fails, streams, visited, opened,
                   status, call, heap>>

NextPred == Call_ShouldPrintFileInformation

SpecPred == InitPred /\ [][NextPred]_vars

-----------------------------------------------------------------------------
(* ParseCommandLineArgs and ParseFileTypes *)

OPT_PRINT == <<"-", "p", "r", "i", "n", "t">>
OPT_LS == <<"-", "l", "s">>
OPT_TYPE == <<"-", "t", "y", "p", "e">>
OPT_USER == <<"-", "u", "s", "e", "r">>
OPT_NOUSER == <<"-", "n", "o", "u", "s", "e", "r">>
OPT_NAME == <<"-", "n", "a", "m", "e">>
OPT_PATH == <<"-", "p", "a", "t", "h">>

Options == {OPT_PRINT, OPT_LS, OPT_TYPE, OPT_USER, OPT_NOUSER, OPT_NAME, OPT_PATH}

\* ParseFileTypes from character i on, with the flags set so far: a
\* character that names no file type ends the loop with false and leaves in
\* *fileTypes the flags of the characters before it.
RECURSIVE ParseFileTypesFrom(_, _, _)
ParseFileTypesFrom(fileTypeChars, i, fileTypes) ==
    IF i > Len(fileTypeChars) THEN [result |-> TRUE, fileTypes |-> fileTypes]
    ELSE LET c == fileTypeChars[i]
         IN  IF c = "b"
             THEN ParseFileTypesFrom(fileTypeChars, i + 1, fileTypes \cup {BlockSpecialFile})
             ELSE IF c = "c"
             THEN ParseFileTypesFrom(fileTypeChars, i + 1, fileTypes \cup {CharacterSpecialFile})
             ELSE IF c = "d"
             THEN ParseFileTypesFrom(fileTypeChars, i + 1, fileTypes \cup {Directory})
             ELSE IF c = "p"
             THEN ParseFileTypesFrom(fileTypeChars, i + 1, fileTypes \cup {NamedPipe})
             ELSE IF c = "f"
             THEN ParseFileTypesFrom(fileTypeChars, i + 1, fileTypes \cup {RegularFile})
             ELSE IF c = "l"
             THEN ParseFileTypesFrom(fileTypeChars, i + 1, fileTypes \cup {SymbolicLink})
             ELSE IF c = "s"
             THEN ParseFileTypesFrom(fileTypeChars, i + 1, fileTypes \cup {Socket})
             ELSE [result |-> FALSE, fileTypes |-> fileTypes]

\* *fileTypes = None, then the loop over the characters.
ParseFileTypes(fileTypeChars) == ParseFileTypesFrom(fileTypeChars, 1, None)

\* argv[i]: argv[0] is the path of the executable, call.argv holds argv[1]
\* and what follows it, and the element after the last is NULL.
Argv(i) ==
    IF i = 0 THEN Ptr(<<"m", "y", "f", "i", "n", "d">>)
    ELSE IF i <= Len(call.argv) THEN Ptr(call.argv[i])
    ELSE NULL

\* main has allocated args and ParseCommandLineArgs has not returned.
Parsing == ret = <<>> /\ heap = {ArgsBlock}

\* The loop of ParseCommandLineArgs is at argv[i], and argv[i] is opt.
AtArg(opt) ==
    /\ Parsing
    /\ Argv(call.i) # NULL
    /\ Deref(Argv(call.i)) = opt

\* i is advanced by k and the loop goes round.
Advance(k) == call' = [call EXCEPT !.i = call.i + k]

\* A diagnostic is printed and ParseCommandLineArgs returns false.
ArgumentError(arg) ==
    /\ diag' = Append(diag, Diagnostic("argument", arg))
    /\ ret' = <<FALSE>>
    /\ UNCHANGED call

\* "-print": nothing to do.
Parse_Print ==
    /\ AtArg(OPT_PRINT)
    /\ Advance(1)
    /\ UNCHANGED <<tree, args, stack, out, diag, fails, streams, visited, opened,
                   status, ret, heap>>

\* "-ls": the flag is set.
Parse_Ls ==
    /\ AtArg(OPT_LS)
    /\ args' = [args EXCEPT !.printInExtendedFormat = TRUE]
    /\ Advance(1)
    /\ UNCHANGED <<tree, stack, out, diag, fails, streams, visited, opened,
                   status, ret, heap>>

\* "-type": the next argument is parsed by ParseFileTypes, which writes
\* args->fileTypes whatever it returns.
Parse_Type ==
    /\ AtArg(OPT_TYPE)
    /\ LET fileTypes == Argv(call.i + 1)
       IN  IF fileTypes = NULL
           THEN /\ ArgumentError(OPT_TYPE)
                /\ UNCHANGED args
           ELSE LET parsed == ParseFileTypes(Deref(fileTypes))
                IN  IF ~parsed.result
                    THEN /\ ArgumentError(Deref(fileTypes))
                         /\ args' = [args EXCEPT !.fileTypes = parsed.fileTypes]
                    ELSE /\ args' = [args EXCEPT !.fileTypes = parsed.fileTypes,
                                                 !.filterByFileType = TRUE]
                         /\ Advance(2)
                         /\ UNCHANGED <<diag, ret>>
    /\ UNCHANGED <<tree, stack, out, fails, streams, visited, opened, status, heap>>

\* "-user": ConvertToInteger and QueryUserID have no return statement and
\* store nothing, so what the calls return is indeterminate: either one of
\* them is taken to have returned true, and args->userID is what the callee
\* left there, or both are taken to have returned false.
Parse_User ==
    /\ AtArg(OPT_USER)
    /\ LET userNameOrID == Argv(call.i + 1)
       IN  IF userNameOrID = NULL
           THEN /\ ArgumentError(OPT_USER)
                /\ UNCHANGED args
           ELSE \E converted \in BOOLEAN, queried \in BOOLEAN, id \in UserIDs :
                   IF converted \/ queried
                   THEN /\ args' = [args EXCEPT !.userID = id,
                                                !.filterByUserID = TRUE]
                        /\ Advance(2)
                        /\ UNCHANGED <<diag, ret>>
                   ELSE /\ ArgumentError(Deref(userNameOrID))
                        /\ args' = [args EXCEPT !.userID = id]
    /\ UNCHANGED <<tree, stack, out, fails, streams, visited, opened, status, heap>>

\* "-nouser": the flag is set.
Parse_NoUser ==
    /\ AtArg(OPT_NOUSER)
    /\ args' = [args EXCEPT !.filterForNoUser = TRUE]
    /\ Advance(1)
    /\ UNCHANGED <<tree, stack, out, diag, fails, streams, visited, opened,
                   status, ret, heap>>

\* A slip: "-name" takes its pattern without looking whether there is one.
Parse_Name_NoValueCheck ==
    /\ AtArg(OPT_NAME)
    /\ args' = [args EXCEPT !.namePattern = Argv(call.i + 1),
                            !.filterForNamePattern = TRUE]
    /\ Advance(2)
    /\ UNCHANGED <<diag, ret>>
    /\ UNCHANGED <<tree, stack, out, fails, streams, visited, opened, status, heap>>

\* "-name": the next argument is the pattern.
Parse_Name ==
    /\ AtArg(OPT_NAME)
    /\ LET namePattern == Argv(call.i + 1)
       IN  IF namePattern = NULL
           THEN /\ ArgumentError(OPT_NAME)
                /\ UNCHANGED args
           ELSE /\ args' = [args EXCEPT !.namePattern = namePattern,
                                        !.filterForNamePattern = TRUE]
                /\ Advance(2)
                /\ UNCHANGED <<diag, ret>>
    /\ UNCHANGED <<tree, stack, out, fails, streams, visited, opened, status, heap>>

\* "-path": the next argument is the pattern.
Parse_Path ==
    /\ AtArg(OPT_PATH)
    /\ LET pathPattern == Argv(call.i + 1)
       IN  IF pathPattern = NULL
           THEN /\ ArgumentError(OPT_PATH)
                /\ UNCHANGED args
           ELSE /\ args' = [args EXCEPT !.pathPattern = pathPattern,
                                        !.filterForPathPattern = TRUE]
                /\ Advance(2)
                /\ UNCHANGED <<diag, ret>>
    /\ UNCHANGED <<tree, stack, out, fails, streams, visited, opened, status, heap>>

\* An argument that is no action: the search path when it is argv[1].
Parse_SearchPath ==
    /\ Parsing
    /\ Argv(call.i) # NULL
    /\ Deref(Argv(call.i)) \notin Options
    /\ call.i = 1
    /\ args' = [args EXCEPT !.searchPath = Argv(call.i)]
    /\ Advance(1)
    /\ UNCHANGED <<tree, stack, out, diag, fails, streams, visited, opened,
                   status, ret, heap>>

\* An argument that is no action, elsewhere: an unknown argument.
Parse_Unknown ==
    /\ Parsing
    /\ Argv(call.i) # NULL
    /\ Deref(Argv(call.i)) \notin Options
    /\ call.i # 1
    /\ ArgumentError(Deref(Argv(call.i)))
    /\ UNCHANGED <<tree, args, stack, out, fails, streams, visited, opened, status, heap>>

\* argv[i] is NULL: all arguments were parsed, the result is true.
Parse_End ==
    /\ Parsing
    /\ Argv(call.i) = NULL
    /\ ret' = <<TRUE>>
    /\ UNCHANGED <<tree, args, stack, out, diag, fails, streams, visited, opened,
                   status, call, heap>>

\* The arguments: the actions, a path or pattern, file type characters,
\* file type characters with one that names no type, and the empty string.
ArgValues == Options \cup {<<"r">>, <<"d">>, <<"f", "x">>, <<>>}
ArgVectors == UNION {[1..n -> ArgValues] : n \in 0..MaxArgs}

\* main has allocated args with calloc and calls ParseCommandLineArgs.
InitParse ==
    /\ tree = [n |-> 1, parent |-> <<0>>, type |-> <<S_IFREG>>, order |-> 1]
    /\ args = ZeroArgs
    /\ call \in [argv : ArgVectors, i : {1}]
    /\ ret = <<>>
    /\ stack = <<>>
    /\ out = <<>>
    /\ diag = <<>>
    /\ fails = <<>>
    /\ streams = {}
    /\ visited = <<>>
    /\ opened = <<>>
    /\ status = <<>>
    /\ heap = {ArgsBlock}

NextParse ==
    \/ Parse_Print
    \/ Parse_Ls
    \/ Parse_Type
    \/ Parse_User
    \/ Parse_NoUser
    \/ Parse_Name
    \/ Parse_Path
    \/ Parse_SearchPath
    \/ Parse_Unknown
    \/ Parse_End

SpecParse == InitParse /\ [][NextParse]_vars

-----------------------------------------------------------------------------
(* The whole program: main, and the allocations that fail *)

\* The node a search path names: the root of the tree for ".", "r" and
\* "r/", and none for any other path.
NodeOfPath(path) ==
    IF path \in {DOT, <<"r">>, <<"r", SEP>>} THEN ROOT ELSE 0

\* What PrintUsage writes to stdout.
UsageLine == [usage |-> "myfind"]

\* An allocation that failed.
IsAllocation(f) == f.op \in {"calloc", "malloc", "strdup"}

\* main is entered: nothing is allocated, parsed or searched yet.
AtEntry ==
    /\ stack = <<>>
    /\ status = <<>>
    /\ ret = <<>>
    /\ heap = {}

\* main: calloc returns the block of struct Args, all zero.
main_Calloc ==
    /\ AtEntry
    /\ heap' = {ArgsBlock}
    /\ UNCHANGED <<tree, args, stack, out, diag, fails, streams, visited, opened,
                   status, call, ret>>

\* main: calloc returns NULL; return -1.
main_CallocFails ==
    /\ AtEntry
    /\ MayFail
    /\ fails' = Append(fails, Failure("calloc", 0, 0))
    /\ status' = <<-1>>
    /\ UNCHANGED <<tree, args, stack, out, diag, streams, visited, opened, heap,
                   call, ret>>

\* A slip: main searches whatever ParseCommandLineArgs has returned.
main_SearchFile_Unchecked ==
    /\ ret # <<>>
    /\ status = <<>>
    /\ stack = <<>>
    /\ stack' = <<Frame("main", "return", <<>>, 0),
                  Frame("SearchFile", "lstat", SearchPath(args),
                        NodeOfPath(SearchPath(args)))>>
    /\ visited' = <<NodeOfPath(SearchPath(args))>>
    /\ UNCHANGED <<tree, args, out, diag, fails, streams, opened, status, heap,
                   call, ret>>

\* main: ParseCommandLineArgs has returned false; PrintUsage, free(args),
\* return -1.
main_Rejected ==
    /\ ret = <<FALSE>>
    /\ status = <<>>
    /\ out' = Append(out, UsageLine)
    /\ heap' = heap \ {ArgsBlock}
    /\ status' = <<-1>>
    /\ UNCHANGED <<tree, args, stack, diag, fails, streams, visited, opened,
                   call, ret>>

\* main: ParseCommandLineArgs has returned true; SearchFile is called for
\* the search path (it is about to call lstat).
main_SearchFile ==
    /\ ret = <<TRUE>>
    /\ status = <<>>
    /\ stack = <<>>
    /\ stack' = <<Frame("main", "return", <<>>, 0),
                  Frame("SearchFile", "lstat", SearchPath(args),
                        NodeOfPath(SearchPath(args)))>>
    /\ visited' = <<NodeOfPath(SearchPath(args))>>
    /\ UNCHANGED <<tree, args, out, diag, fails, streams, opened, status, heap,
                   call, ret>>

\* readdir has returned an entry that AddListNode is called for.
AtAddListNode ==
    /\ AtTop("SearchDirectory", "readdir")
    /\ Top.pos < Len(Listing(Resolve(Top.node)))
    /\ ~IsDotEntry(Listing(Resolve(Top.node))[Top.pos + 1].d_name)

\* AddListNode: malloc returns NULL; exit(-1).
AddListNode_MallocFails ==
    /\ AtAddListNode
    /\ MayFail
    /\ fails' = Append(fails, Failure("malloc", Top.node, Top.pos))
    /\ stack' = <<>>
    /\ status' = <<-1>>
    /\ UNCHANGED <<tree, args, out, diag, streams, visited, opened, heap, call, ret>>

\* AddListNode: strdup returns NULL, which is stored as the file name of
\* the node without a test; the node is linked in and the loop goes round.
AddListNode_StrdupFails ==
    /\ AtAddListNode
    /\ MayFail
    /\ fails' = Append(fails, Failure("strdup", Top.node, Top.pos))
    /\ stack' = SetTop([Top EXCEPT !.pos = Top.pos + 1,
                                   !.head = AddListNode(Top.head, NULL)])
    /\ heap' = heap \cup ListBlocks(Len(stack), Top.node, stack'[Len(stack)].head)
    /\ UNCHANGED <<tree, args, out, diag, streams, visited, opened, status, call, ret>>

\* SearchDirectory is at a list node whose file name is NULL.
AtNullFileName ==
    /\ AtTop("SearchDirectory", "iterate")
    /\ Top.cur <= Len(Top.head)
    /\ Top.head[Top.cur] = NULL

\* CombinePath(directoryPath, NULL): strlen reads through the null pointer,
\* which is undefined.  Either the process is stopped by a signal, or the
\* read yields a length of 0, CombinePath returns a copy of directoryPath
\* and SearchFile is called for the directory once more.
CombinePath_NullFileName ==
    /\ AtNullFileName
    /\ \E faults \in BOOLEAN :
          IF faults
          THEN /\ stack' = <<>>
               /\ status' = <<139>>
               /\ UNCHANGED <<visited, heap>>
          ELSE /\ stack' = Append(stack, Frame("SearchFile", "lstat",
                                                Top.path, Top.node))
               /\ visited' = Append(visited, Top.node)
               /\ heap' = heap \cup {PathBlock(Len(stack), Top.node, Top.cur)}
               /\ UNCHANGED status
    /\ UNCHANGED <<tree, args, out, diag, fails, streams, opened, call, ret>>

\* CombinePath: calloc returns NULL; exit(-1).  The step before has run up
\* to the lstat of the SearchFile that CombinePath builds the path for;
\* with the allocation failing, that call of SearchFile was never made.
CombinePath_CallocFails ==
    /\ AtTop("SearchFile", "lstat")
    /\ Len(stack) > 2
    /\ LET caller == stack[Len(stack) - 1]
       IN  caller.head[caller.cur] # NULL
    /\ MayFail
    /\ fails' = Append(fails, Failure("calloc", Top.node, 0))
    /\ visited' = Front(visited)
    /\ heap' = heap \ {PathBlock(Len(stack) - 1, stack[Len(stack) - 1].node,
                                  stack[Len(stack) - 1].cur)}
    /\ stack' = <<>>
    /\ status' = <<-1>>
    /\ UNCHANGED <<tree, args, out, diag, streams, opened, call, ret>>

\* The command lines main is run with: none, a search path alone, every
\* option, a value that is missing, one that is not valid, an argument
\* that is unknown, and a search path that names nothing.
MainArgVectors ==
    {<<>>,
     <<<<"r">>>>,
     <<<<"r">>, OPT_LS>>,
     <<<<"r">>, OPT_PRINT, OPT_NOUSER>>,
     <<OPT_TYPE, <<"d">>>>,
     <<<<"r">>, OPT_USER, <<"r">>>>,
     <<OPT_NAME, <<"r">>>>,
     <<OPT_PATH, <<"r">>>>,
     <<<<"r">>, OPT_TYPE, <<"f", "x">>>>,
     <<<<"r">>, OPT_NAME>>,
     <<<<"r">>, <<"d">>>>,
     <<<<"d">>>>}

\* The process starts: main is entered with argv.  The trees are those of
\* fewer than MaxNodes nodes whose streams list "." and ".." first.
InitMain ==
    /\ tree \in {t \in Trees : t.n < MaxNodes /\ t.order = 1}
    /\ args = ZeroArgs
    /\ call \in [argv : MainArgVectors, i : {1}]
    /\ ret = <<>>
    /\ stack = <<>>
    /\ out = <<>>
    /\ diag = <<>>
    /\ fails = <<>>
    /\ streams = {}
    /\ visited = <<>>
    /\ opened = <<>>
    /\ status = <<>>
    /\ heap = {}

NextMain ==
    \/ main_Calloc
    \/ main_CallocFails
    \/ Parse_Print
    \/ Parse_Ls
    \/ Parse_Type
    \/ Parse_User
    \/ Parse_NoUser
    \/ Parse_Name
    \/ Parse_Path
    \/ Parse_SearchPath
    \/ Parse_Unknown
    \/ Parse_End
    \/ main_Rejected
    \/ main_SearchFile
    \/ SearchFile_LstatFails
    \/ SearchFile_Lstat
    \/ SearchDirectory_OpendirFails
    \/ SearchDirectory_Opendir
    \/ SearchDirectory_Readdir
    \/ SearchDirectory_ReaddirEnd
    \/ SearchDirectory_ReaddirFails
    \/ SearchDirectory_Closedir
    \/ SearchDirectory_ClosedirFails
    \/ AddListNode_MallocFails
    \/ AddListNode_StrdupFails
    \/ CombinePath_NullFileName
    \/ CombinePath_CallocFails

SpecMain == InitMain /\ [][NextMain]_vars

-----------------------------------------------------------------------------
(* CombinePath called on its own *)

\* The characters of the paths: two that are no separator, and the
\* separator.
PathChars == {"a", "b", SEP}
Paths == UNION {[1..n -> PathChars] : n \in 0..MaxLen}

InitPath ==
    /\ tree = [n |-> 1, parent |-> <<0>>, type |-> <<S_IFREG>>, order |-> 1]
    /\ args = ZeroArgs
    /\ call \in [path1 : Paths, path2 : Paths]
    /\ ret = <<>>
    /\ stack = <<>>
    /\ out = <<>>
    /\ diag = <<>>
    /\ fails = <<>>
    /\ streams = {}
    /\ visited = <<>>
    /\ opened = <<>>
    /\ status = <<>>
    /\ heap = {}

Call_CombinePath ==
    /\ ret = <<>>
    /\ ret' = <<CombinePath(call.path1, call.path2)>>
    /\ UNCHANGED <<tree, args, stack, out, diag, fails, streams, visited, opened,
                   status, call, heap>>

NextPath == Call_CombinePath

SpecPath == InitPath /\ [][NextPath]_vars

-----------------------------------------------------------------------------
(* The tree, its paths and its read order, as the properties speak of them *)

Range(s) == {s[i] : i \in DOMAIN s}
Count(s, x) == Cardinality({i \in DOMAIN s : s[i] = x})

\* The path of a node: the search path for the root, and for any other node
\* the path of its directory, one separator, and its name.
RECURSIVE RefPath(_)
RefPath(n) ==
    IF n = ROOT THEN SearchPath(args)
    ELSE LET p == RefPath(tree.parent[n])
         IN  IF Last(p) = SEP THEN p \o NameOf(n) ELSE p \o <<SEP>> \o NameOf(n)

\* n lies beneath d: d is its parent or a parent of its parent, and so on.
RECURSIVE Beneath(_, _)
Beneath(n, d) ==
    /\ n # ROOT
    /\ \/ tree.parent[n] = d
       \/ Beneath(tree.parent[n], d)

InSubtree(n, d) == n = d \/ Beneath(n, d)

\* The place of node c among the entries readdir returns for its directory.
ReadPos(c) ==
    LET entries == Listing(tree.parent[c])
    IN  CHOOSE i \in DOMAIN entries : entries[i] = Dirent(NameOf(c), c)

\* The nodes of directory d in the order readdir returns them.
ReadOrder(d) ==
    LET named == SelectSeq(Listing(d), LAMBDA e : e.d_name \notin {DOT, DOTDOT})
    IN  [i \in 1..Len(named) |-> named[i].node]

\* The nodes in pre-order: a node, then the pre-order of each entry of a
\* directory, entry after entry in read order.
RECURSIVE PreOrder(_), PreOrderAll(_)
PreOrder(n) ==
    <<n>> \o (IF tree.type[n] = S_IFDIR THEN PreOrderAll(ReadOrder(n)) ELSE <<>>)
PreOrderAll(ns) ==
    IF ns = <<>> THEN <<>> ELSE PreOrder(Head(ns)) \o PreOrderAll(Tail(ns))

\* The lines a walk prints for the nodes ns, and the paths stdout shows.
LinesOf(ns) == [i \in 1..Len(ns) |-> [path |-> RefPath(ns[i]), ino |-> ns[i]]]
Printed == [i \in 1..Len(out) |-> out[i].path]

\* A walk that meets node n prints it.
Emits(n) ==
    /\ ShouldPrintFileInformation(RefPath(n), Lstat(n), args)
    /\ PrintFileInformation(RefPath(n), Lstat(n), args, <<>>) # <<>>

NoFilter(a) ==
    /\ ~a.filterByFileType
    /\ ~a.filterByUserID
    /\ ~a.filterForNoUser
    /\ ~a.filterForNamePattern
    /\ ~a.filterForPathPattern

\* The only system call that failed is an op on some node.
OnlyFailure(op) == Len(fails) = 1 /\ fails[1].op = op

-----------------------------------------------------------------------------
(* C1 *)

\* C1: in the walk of the final draft at most one directory stream is open
\* in every state, and none is open when SearchFile has just been called
\* (it is about to call lstat), whatever system calls have failed.
C1_AtMostOneStreamOpen ==
    /\ Cardinality(streams) <= 1
    /\ AtTop("SearchFile", "lstat") => streams = {}

\* SearchFile has been called for an entry of a directory beneath the
\* root, after a system call failed.
C1_Witness ==
    /\ AtTop("SearchFile", "lstat")
    /\ Len(stack) >= 6
    /\ streams = {}
    /\ fails # <<>>

(* C2 *)

\* C2: in the walk of the first draft no directory stream is open when
\* do_file is called for an entry of a directory, and at most one stream is
\* open in every state.
C2_StreamClosedBeforeChildren ==
    /\ Cardinality(streams) <= 1
    /\ (AtTop("do_file", "lstat") /\ Len(stack) > 2) => streams = {}

(* C3 *)

\* C3: when the walk of the final draft has ended with no filter active, in
\* simple output mode and with no system call failed, the path of every
\* node of the tree has been printed exactly once and nothing else has.
C3_EveryNodeOnce ==
    (Done /\ fails = <<>> /\ NoFilter(args) /\ ~args.printInExtendedFormat)
        => /\ \A n \in Nodes : Count(Printed, RefPath(n)) = 1
           /\ \A i \in DOMAIN out : \E n \in Nodes : Printed[i] = RefPath(n)

\* Such a walk of a tree of four nodes or more, one of them two levels
\* beneath the root, has ended.
C3_Witness ==
    /\ Done /\ fails = <<>> /\ NoFilter(args) /\ ~args.printInExtendedFormat
    /\ tree.n >= 4
    /\ \E n \in Nodes : n # ROOT /\ tree.parent[n] # ROOT
    /\ Len(out) = tree.n

(* C4 *)

\* C4: the walk is a pre-order depth-first traversal in read order: when it
\* has ended, no entry was printed before a directory it lies beneath;
\* between two visits within the subtree of a node every visit was within
\* that subtree; two entries of one directory were visited in the order
\* readdir returned them.
C4_PreOrderReadOrder ==
    Done =>
    /\ \A i, j \in DOMAIN out : (i < j) => ~Beneath(out[i].ino, out[j].ino)
    /\ \A i, j \in DOMAIN visited :
          (i < j) => /\ ~Beneath(visited[i], visited[j])
                     /\ visited[i] # visited[j]
    /\ \A c \in Nodes :
          LET within == {i \in DOMAIN visited : InSubtree(visited[i], c)}
          IN  \A i, j \in within : \A k \in i..j : k \in within
    /\ \A d \in Nodes :
          SelectSeq(visited, LAMBDA v : v # ROOT /\ tree.parent[v] = d)
             = SelectSeq(ReadOrder(d), LAMBDA c : c \in Range(visited))

\* A walk has ended that printed a directory, then an entry of it, then
\* an entry of the directory's own directory.
C4_Witness ==
    /\ Done
    /\ \E i, j, k \in DOMAIN out :
          /\ i < j /\ j < k
          /\ tree.parent[out[j].ino] = out[i].ino
          /\ out[i].ino # ROOT
          /\ tree.parent[out[k].ino] = tree.parent[out[i].ino]

(* C5 *)

\* Shell-glob matching of the whole string s: * matches any run of
\* characters, ? matches one character, any other character itself.
RECURSIVE Glob(_, _)
Glob(pat, s) ==
    IF pat = <<>> THEN s = <<>>
    ELSE IF Head(pat) = "*"
         THEN Glob(Tail(pat), s) \/ (s # <<>> /\ Glob(pat, Tail(s)))
    ELSE /\ s # <<>>
         /\ Head(pat) = "?" \/ Head(pat) = Head(s)
         /\ Glob(Tail(pat), Tail(s))

\* The last segment of a path.
RECURSIVE Basename(_)
Basename(path) ==
    IF path = <<>> \/ Last(path) = SEP THEN <<>>
    ELSE Append(Basename(Front(path)), Last(path))

\* The flag of enum FileTypes that names a file type.
FlagOf(mode) ==
    CASE mode = S_IFBLK -> BlockSpecialFile
      [] mode = S_IFCHR -> CharacterSpecialFile
      [] mode = S_IFDIR -> Directory
      [] mode = S_IFIFO -> NamedPipe
      [] mode = S_IFREG -> RegularFile
      [] mode = S_IFLNK -> SymbolicLink
      [] mode = S_IFSOCK -> Socket

\* Every active filter of configuration a is satisfied by the entry.
EveryActiveFilterSatisfied(filePath, fileInformation, a) ==
    /\ a.filterByFileType => FlagOf(fileInformation.st_mode) \in a.fileTypes
    /\ a.filterByUserID => fileInformation.st_uid = a.userID
    /\ a.filterForNoUser => fileInformation.st_uid \notin KnownUserIDs
    /\ a.filterForNamePattern => Glob(Deref(a.namePattern), Basename(filePath))
    /\ a.filterForPathPattern => Glob(Deref(a.pathPattern), filePath)

\* C5: ShouldPrintFileInformation returns true if and only if every active
\* filter is satisfied by the entry, for any subset of the filters active.
C5_ConjunctionOfActiveFilters ==
    ret # <<>> =>
        (ret[1] <=> EveryActiveFilterSatisfied(call.filePath, call.fileInformation, args))

(* C6 *)

\* The lines a walk with no failing system call prints, in order, for the
\* nodes that satisfy Keep.
ExpectedLines(Keep(_)) ==
    LinesOf(SelectSeq(PreOrder(ROOT), LAMBDA n : Emits(n) /\ Keep(n)))

\* A walk in which no system call failed has printed, in pre-order, the
\* nodes it prints.
FailureFreeOutput ==
    (Done /\ fails = <<>>) => out = ExpectedLines(LAMBDA n : TRUE)

\* C6: when opendir of directory D is the only system call that failed, the
\* walk has printed one diagnostic, for D, and its output is the output of
\* the walk without the failure less the entries beneath D, in that order.
C6_OpendirFailureIsolated ==
    /\ FailureFreeOutput
    /\ (Done /\ OnlyFailure("opendir")) =>
          LET D == fails[1].node
          IN  /\ diag = <<Diagnostic("opendir", RefPath(D))>>
              /\ out = ExpectedLines(LAMBDA n : ~Beneath(n, D))

\* opendir failed for a directory D beneath the root that has an entry the
\* walk would have printed, D was printed and so was a later entry of D's
\* directory.
C6_Witness ==
    /\ Done /\ OnlyFailure("opendir")
    /\ LET D == fails[1].node
       IN  /\ D # ROOT
           /\ \E c \in Children(D) : Emits(c)
           /\ \E i, j \in DOMAIN out :
                 /\ out[i].ino = D
                 /\ i < j
                 /\ tree.parent[out[j].ino] = tree.parent[D]

(* C7 *)

\* C7: when closedir of directory D is the only system call that failed,
\* the walk has printed a diagnostic for D and has visited and printed what
\* the walk in which closedir succeeds visits and prints.
C7_ClosedirFailureKeepsChildren ==
    (Done /\ OnlyFailure("closedir")) =>
        /\ diag = <<Diagnostic("closedir", RefPath(fails[1].node))>>
        /\ visited = PreOrder(ROOT)
        /\ out = ExpectedLines(LAMBDA n : TRUE)

(* C8 *)

\* The entries of directory D among the first k that readdir returns.
ReadBefore(D, k) == SelectSeq(ReadOrder(D), LAMBDA c : ReadPos(c) <= k)

\* C8: no readdir is called on a directory after a readdir on it failed;
\* and when a readdir on D after k entries is the only system call that
\* failed, the walk has printed one diagnostic, for D, has visited, of the
\* entries of D, those read before the failure, in read order, and its
\* output is the output of the walk without the failure less the subtrees
\* of the entries of D not read.
C8_ReaddirFailureKeepsCollected ==
    /\ FailureFreeOutput
    /\ \A i \in DOMAIN fails :
          fails[i].op = "readdir" =>
             ~(AtTop("SearchDirectory", "readdir") /\ Top.node = fails[i].node)
    /\ (Done /\ OnlyFailure("readdir")) =>
          LET D == fails[1].node
              k == fails[1].k
          IN  /\ diag = <<Diagnostic("readdir", RefPath(D))>>
              /\ SelectSeq(visited, LAMBDA v : v # ROOT /\ tree.parent[v] = D)
                    = ReadBefore(D, k)
              /\ out = ExpectedLines(LAMBDA n :
                          ~\E c \in Children(D) : ReadPos(c) > k /\ InSubtree(n, c))

\* readdir failed on a directory after it had returned entries, one of
\* them a name that was then visited and printed, and before it returned
\* another.
C8_Witness ==
    /\ Done /\ OnlyFailure("readdir")
    /\ LET D == fails[1].node
           k == fails[1].k
       IN  /\ \E c \in Children(D) :
                 /\ ReadPos(c) <= k
                 /\ \E i \in DOMAIN out : out[i].ino = c
           /\ \E c \in Children(D) : ReadPos(c) > k

(* C9 *)

\* C9: when lstat of node N is the only system call that failed, the walk
\* has printed one diagnostic, for N, has not called opendir for N, has
\* visited every node except those beneath N, in pre-order, and its output
\* is the output of the walk without the failure less N and the entries
\* beneath it.
C9_LstatFailureIsolated ==
    /\ FailureFreeOutput
    /\ (Done /\ OnlyFailure("lstat")) =>
          LET N == fails[1].node
          IN  /\ diag = <<Diagnostic("lstat", RefPath(N))>>
              /\ N \notin Range(opened)
              /\ visited = SelectSeq(PreOrder(ROOT), LAMBDA n : ~Beneath(n, N))
              /\ out = ExpectedLines(LAMBDA n : ~InSubtree(n, N))

\* lstat failed for a directory beneath the root that has entries, and an
\* entry of its directory read after it was printed.
C9_Witness ==
    /\ Done /\ OnlyFailure("lstat")
    /\ LET N == fails[1].node
       IN  /\ N # ROOT
           /\ tree.type[N] = S_IFDIR
           /\ Children(N) # {}
           /\ \E i \in DOMAIN out :
                 /\ out[i].ino # ROOT
                 /\ tree.parent[out[i].ino] = tree.parent[N]
                 /\ ReadPos(out[i].ino) > ReadPos(N)

(* C10 *)

\* C10: opendir is never called for a symbolic link; every call of
\* SearchFile and SearchDirectory is for the path of a node of the tree
\* (none reaches a node through a link); and when a walk with the type
\* filter active in simple output mode has ended, a symbolic link whose
\* lstat did not fail has been printed if and only if the type set holds
\* the flag for symbolic links.
C10_SymlinkNotFollowed ==
    /\ \A i \in DOMAIN opened : tree.type[opened[i]] # S_IFLNK
    /\ stack # <<>> /\ Top.fn # "main" => Top.path = RefPath(Top.node)
    /\ (Done /\ args.filterByFileType /\ ~args.printInExtendedFormat) =>
          \A n \in Range(visited) :
             (/\ tree.type[n] = S_IFLNK
              /\ \A i \in DOMAIN fails : fails[i] # Failure("lstat", n, 0))
                => ((\E i \in DOMAIN out : out[i].ino = n)
                       <=> HasFlag(args.fileTypes, SymbolicLink))

\* A walk with symbolic links in the type set has ended that printed a
\* symbolic link to a directory above it, a directory with entries.
C10_Witness ==
    /\ Done /\ args.filterByFileType /\ ~args.printInExtendedFormat
    /\ HasFlag(args.fileTypes, SymbolicLink)
    /\ \E i \in DOMAIN out :
          LET n == out[i].ino
          IN  /\ tree.type[n] = S_IFLNK
              /\ IsDirectory(n)
              /\ Beneath(n, Resolve(n))

(* C11 *)

\* The system call op on node n failed.
FailedAt(op, n) == \E i \in DOMAIN fails : fails[i].op = op /\ fails[i].node = n

\* The entries of directory d that readdir returned before it failed or
\* reached the end of the stream, "." and ".." left out, in that order.
Collected(d) ==
    LET entries == Listing(d)
        failed == {i \in DOMAIN fails :
                      fails[i].op = "readdir" /\ fails[i].node = d}
        count == IF failed = {} THEN Len(entries)
                 ELSE fails[CHOOSE i \in failed : TRUE].k
    IN  SelectSeq(SubSeq(entries, 1, count),
                  LAMBDA e : e.d_name \notin {DOT, DOTDOT})

\* The visits, the opendir calls and the diagnostics of a walk from node n
\* at path path, as the tree, the search path and the failed system calls
\* alone fix them: no filter and no output mode is consulted.
RECURSIVE WalkOf(_, _), WalkOfAll(_, _)
WalkOf(n, path) ==
    IF FailedAt("lstat", n)
    THEN [visited |-> <<n>>, opened |-> <<>>,
          diag |-> <<Diagnostic("lstat", path)>>]
    ELSE IF tree.type[n] # S_IFDIR
    THEN [visited |-> <<n>>, opened |-> <<>>, diag |-> <<>>]
    ELSE IF FailedAt("opendir", n)
    THEN [visited |-> <<n>>, opened |-> <<n>>,
          diag |-> <<Diagnostic("opendir", path)>>]
    ELSE LET rd == IF FailedAt("readdir", n)
                   THEN <<Diagnostic("readdir", path)>> ELSE <<>>
         IN  IF FailedAt("closedir", n)
             THEN [visited |-> <<n>>, opened |-> <<n>>,
                   diag |-> rd \o <<Diagnostic("closedir", path)>>]
             ELSE LET kids == WalkOfAll(Collected(n), path)
                  IN  [visited |-> <<n>> \o kids.visited,
                       opened |-> <<n>> \o kids.opened,
                       diag |-> rd \o kids.diag]
WalkOfAll(entries, path) ==
    IF entries = <<>> THEN [visited |-> <<>>, opened |-> <<>>, diag |-> <<>>]
    ELSE LET e == Head(entries)
             h == WalkOf(e.node, CombinePath(path, e.d_name))
             t == WalkOfAll(Tail(entries), path)
         IN  [visited |-> h.visited \o t.visited,
              opened |-> h.opened \o t.opened,
              diag |-> h.diag \o t.diag]

\* C11: when a walk has ended, the sequence of nodes it visited, the
\* sequence of directories it called opendir for and the diagnostics it
\* printed are those fixed by the tree, the search path and the failed
\* system calls, whatever the filters and the output mode (so two walks of
\* one tree with the same failures and different filters agree on them); and
\* every directory it visited whose lstat did not fail was passed to
\* opendir, printed or not.
C11_WalkIndependentOfFilters ==
    Done =>
        /\ LET w == WalkOf(ROOT, SearchPath(args))
           IN  /\ visited = w.visited
               /\ opened = w.opened
               /\ diag = w.diag
        /\ \A n \in Range(visited) :
              (tree.type[n] = S_IFDIR /\ ~FailedAt("lstat", n))
                 => n \in Range(opened)

\* A walk with a type filter that holds no directories has ended after a
\* system call failed: a directory beneath the root was not printed, was
\* opened all the same, and an entry of it was visited and printed.
C11_Witness ==
    /\ Done /\ fails # <<>>
    /\ args.filterByFileType /\ ~HasFlag(args.fileTypes, Directory)
    /\ ~args.printInExtendedFormat
    /\ \E d \in Range(opened) :
          /\ d # ROOT
          /\ \A i \in DOMAIN out : out[i].ino # d
          /\ \E i \in DOMAIN out : tree.parent[out[i].ino] = d

(* C12 *)

\* C12: when ParseCommandLineArgs has returned true, the owner-ID filter
\* and the no-owner filter are not both active in the configuration.
C12_OwnerFiltersExclusive ==
    ret = <<TRUE>> => ~(args.filterByUserID /\ args.filterForNoUser)

(* C13 *)

\* A string less one separator at its end, or at its start, if it has one.
TrimTrailing(s) == IF s # <<>> /\ Last(s) = SEP THEN Front(s) ELSE s
TrimLeading(s) == IF s # <<>> /\ Head(s) = SEP THEN Tail(s) ELSE s

\* C13: for non-empty parent and child, CombinePath returns the parent less
\* one trailing separator if it has one, one separator, and the child less
\* one leading separator if it has one.
C13_ExactlyOneSeparatorAtJunction ==
    (ret # <<>> /\ call.path1 # <<>> /\ call.path2 # <<>>) =>
        ret[1] = TrimTrailing(call.path1) \o <<SEP>> \o TrimLeading(call.path2)

\* CombinePath("a/", "/b") has returned "a/b".
C13_Witness ==
    /\ ret = << <<"a", SEP, "b">> >>
    /\ call.path1 = <<"a", SEP>>
    /\ call.path2 = <<SEP, "b">>

(* C14 *)

\* C14: with an empty first operand CombinePath returns the second operand
\* unchanged, and with an empty second operand the first.
C14_EmptyStringIsIdentity ==
    ret # <<>> =>
        /\ call.path1 = <<>> => ret[1] = call.path2
        /\ call.path2 = <<>> => ret[1] = call.path1

\* CombinePath("", "/a/") has returned "/a/".
C14_Witness ==
    /\ ret = << <<SEP, "a", SEP>> >>
    /\ call.path1 = <<>>
    /\ call.path2 = <<SEP, "a", SEP>>

(* C15 *)

\* C15: when a walk has ended, in simple and in extended output mode alike,
\* stdout holds one record for every visited entry whose lstat succeeded
\* and for which ShouldPrintFileInformation returns true, in the order of
\* the visits, and no other record.
C15_OneRecordPerMatch ==
    Done =>
        out = LinesOf(SelectSeq(visited, LAMBDA n :
                  /\ ~FailedAt("lstat", n)
                  /\ ShouldPrintFileInformation(RefPath(n), Lstat(n), args)))

(* C16 *)

\* C16: with no filter active ShouldPrintFileInformation returns true.
C16_NoFilterMatchesAll ==
    (ret # <<>> /\ NoFilter(args)) => ret[1] = TRUE

\* It has returned true, no filter active, for a socket of a user without
\* account at a path of two segments.
C16_Witness ==
    /\ ret = <<TRUE>>
    /\ NoFilter(args)
    /\ call.fileInformation.st_mode = S_IFSOCK
    /\ call.fileInformation.st_uid \notin KnownUserIDs
    /\ call.filePath = <<"a", SEP, "b">>

(* C17 *)

\* Of the five filters only the one named is active.
OnlyTypeFilter(a) ==
    /\ a.filterByFileType
    /\ ~a.filterByUserID /\ ~a.filterForNoUser
    /\ ~a.filterForNamePattern /\ ~a.filterForPathPattern
OnlyUserIDFilter(a) ==
    /\ a.filterByUserID
    /\ ~a.filterByFileType /\ ~a.filterForNoUser
    /\ ~a.filterForNamePattern /\ ~a.filterForPathPattern
OnlyNoUserFilter(a) ==
    /\ a.filterForNoUser
    /\ ~a.filterByFileType /\ ~a.filterByUserID
    /\ ~a.filterForNamePattern /\ ~a.filterForPathPattern
OnlyNameFilter(a) ==
    /\ a.filterForNamePattern
    /\ ~a.filterByFileType /\ ~a.filterByUserID
    /\ ~a.filterForNoUser /\ ~a.filterForPathPattern

\* C17: with only the type filter active ShouldPrintFileInformation returns
\* true if and only if the flag of the entry's file type is in the
\* configured set.
C17_TypeFilter ==
    (ret # <<>> /\ OnlyTypeFilter(args)) =>
        (ret[1] <=> FlagOf(call.fileInformation.st_mode) \in args.fileTypes)

\* With the set {d} it has returned false for a regular file.
C17_Witness ==
    /\ ret = <<FALSE>>
    /\ OnlyTypeFilter(args)
    /\ args.fileTypes = {Directory}
    /\ call.fileInformation.st_mode = S_IFREG

(* C18 *)

\* C18: with only the owner-ID filter active ShouldPrintFileInformation
\* returns true if and only if st_uid equals the configured user ID.
C18_UserIDFilter ==
    (ret # <<>> /\ OnlyUserIDFilter(args)) =>
        (ret[1] <=> call.fileInformation.st_uid = args.userID)

\* With user ID 2 configured it has returned true for an entry of user 2.
C18_Witness ==
    /\ ret = <<TRUE>>
    /\ OnlyUserIDFilter(args)
    /\ args.userID = 2
    /\ call.fileInformation.st_uid = 2

(* C19 *)

\* C19: with only the no-owner filter active ShouldPrintFileInformation
\* returns true if and only if st_uid belongs to no account of the host.
C19_NoUserFilter ==
    (ret # <<>> /\ OnlyNoUserFilter(args)) =>
        (ret[1] <=> call.fileInformation.st_uid \notin KnownUserIDs)

(* C20 *)

\* C20: with only the name filter active ShouldPrintFileInformation returns
\* true if and only if the pattern matches the whole last segment of the
\* path, * matching any run of characters and ? one character.
C20_NameFilter ==
    (ret # <<>> /\ OnlyNameFilter(args)) =>
        (ret[1] <=> Glob(Deref(args.namePattern), Basename(call.filePath)))

(* C21 *)

OnlyPathFilter(a) ==
    /\ a.filterForPathPattern
    /\ ~a.filterByFileType /\ ~a.filterByUserID
    /\ ~a.filterForNoUser /\ ~a.filterForNamePattern

\* C21: with only the path filter active ShouldPrintFileInformation returns
\* true if and only if the pattern matches the whole path of the entry.
C21_PathFilter ==
    (ret # <<>> /\ OnlyPathFilter(args)) =>
        (ret[1] <=> Glob(Deref(args.pathPattern), call.filePath))

(* C29 *)

\* C29: every block on the heap other than struct Args was obtained by a
\* call of SearchDirectory that has not returned (a FileNode or file name
\* of its list, or the path of the entry it is searching); and when the
\* process has ended the heap is empty.
C29_ListingMemoryFreed ==
    /\ \A b \in heap :
          b.kind # "Args" =>
             /\ b.depth <= Len(stack)
             /\ stack[b.depth].fn = "SearchDirectory"
             /\ stack[b.depth].node = b.dir
    /\ Done => heap = {}

(* C28 *)

\* The names the first k readdir calls on directory d return, "." and ".."
\* left out.
NamesRead(d, k) ==
    LET named == SelectSeq(SubSeq(Listing(d), 1, k),
                           LAMBDA e : e.d_name \notin {DOT, DOTDOT})
    IN  [i \in 1..Len(named) |-> named[i].d_name]

\* C28: while SearchDirectory reads a directory stream, and when it has
\* drained it and is about to call closedir, its list is the sequence of
\* the names readdir has returned, in that order, less "." and "..".
C28_ListingIsStreamLessDots ==
    (stack # <<>> /\ Top.fn = "SearchDirectory" /\ Top.pc \in {"readdir", "closedir"})
        => Top.head = NamesRead(Resolve(Top.node), Top.pos)

\* SearchDirectory has drained, with no read failure, a stream that
\* returned "." between two names and ".." last, and holds both names.
C28_Witness ==
    /\ AtTop("SearchDirectory", "closedir")
    /\ tree.order = 2
    /\ Top.pos = Len(Listing(Resolve(Top.node)))
    /\ Len(Top.head) >= 2
    /\ \A i \in DOMAIN fails : fails[i].op # "readdir"

(* C30 *)

\* C30: for non-empty operands the string CombinePath builds, with its
\* terminator, fits in the strlen(path1) + strlen(path2) + 2 bytes that
\* calloc was asked for.
C30_ResultFitsAllocation ==
    (ret # <<>> /\ call.path1 # <<>> /\ call.path2 # <<>>) =>
        Len(ret[1]) + 1 <= Len(call.path1) + Len(call.path2) + 2

\* CombinePath("ab", "b") has returned "ab/b", which fills the allocation.
C30_Witness ==
    /\ ret = << <<"a", "b", SEP, "b">> >>
    /\ call.path1 = <<"a", "b">>
    /\ call.path2 = <<"b">>
    /\ Len(ret[1]) + 1 = Len(call.path1) + Len(call.path2) + 2

(* C22 *)

\* The depth of a node in the directory tree, and of the tree.
RECURSIVE DepthOf(_)
DepthOf(n) == IF n = ROOT THEN 0 ELSE 1 + DepthOf(tree.parent[n])
TreeDepth == CHOOSE d \in 0..tree.n :
                /\ \E n \in Nodes : DepthOf(n) = d
                /\ \A n \in Nodes : DepthOf(n) <= d

\* The number of calls of SearchFile in progress.
SearchFileDepth == Cardinality({i \in DOMAIN stack : stack[i].fn = "SearchFile"})

\* The system calls a call of SearchFile for node n makes at most before
\* it calls SearchFile again: lstat and, for a directory, opendir, one
\* readdir for each entry of the stream ("." and ".." and the entries of
\* the directory) and one for its end, and closedir.
EntriesOf(n) == 2 + Cardinality(Children(n))
CallsOf(n) ==
    IF S_ISDIR(tree.type[n]) THEN 4 + EntriesOf(n) ELSE 1

\* The system calls the call in progress f has still to make itself.
CallsLeft(f) ==
    IF f.pc = "lstat" THEN CallsOf(f.node)
    ELSE IF f.pc = "opendir" THEN CallsOf(f.node) - 1
    ELSE IF f.pc = "readdir" THEN EntriesOf(f.node) - f.pos + 2
    ELSE IF f.pc = "closedir" THEN 1
    ELSE 0

RECURSIVE SumCallsOf(_)
SumCallsOf(S) ==
    IF S = {} THEN 0
    ELSE LET n == CHOOSE m \in S : TRUE
         IN  CallsOf(n) + SumCallsOf(S \ {n})

RECURSIVE SumCallsLeft(_)
SumCallsLeft(stk) ==
    IF stk = <<>> THEN 0 ELSE CallsLeft(Head(stk)) + SumCallsLeft(Tail(stk))

\* A bound on the system calls the walk has still to make: those of the
\* calls in progress and those of the nodes SearchFile was not called for.
CallsAhead(stk, vis) ==
    SumCallsLeft(stk) + SumCallsOf(Nodes \ {vis[i] : i \in DOMAIN vis})

\* The innermost call is about to make a system call, which returns: lstat,
\* opendir and closedir with 0 or an error, readdir with the next entry of
\* the stream or with NULL at its end.
AtSystemCall ==
    \/ AtTop("SearchFile", "lstat")
    \/ AtTop("SearchDirectory", "opendir")
    \/ /\ AtTop("SearchDirectory", "readdir")
       /\ Top.pos <= Len(Listing(Resolve(Top.node)))
    \/ AtTop("SearchDirectory", "closedir")

\* C22: whatever system calls fail and wherever the symbolic links of the
\* tree point, the number of calls of SearchFile in progress never exceeds
\* the depth of the directory tree plus one, and the walk ends: as long as
\* it has not ended its next system call is due, and every step takes one
\* from a bound on the system calls still to make, which is never negative.
C22_TerminatesWithinTreeDepth ==
    /\ [](SearchFileDepth <= TreeDepth + 1)
    /\ [](Done \/ AtSystemCall)
    /\ [](CallsAhead(stack, visited) >= 0)
    /\ [][CallsAhead(stack', visited') < CallsAhead(stack, visited)]_vars

\* A walk has ended, after a system call failed, that visited a symbolic
\* link to a directory the link lies beneath, and as many calls of
\* SearchFile were never in progress as the link is deep.
C22_Witness ==
    /\ Done
    /\ fails # <<>>
    /\ \E i \in DOMAIN visited :
          LET n == visited[i]
          IN  /\ tree.type[n] = S_IFLNK
              /\ Resolve(n) # 0
              /\ tree.type[Resolve(n)] = S_IFDIR
              /\ Beneath(n, Resolve(n))
              /\ DepthOf(n) = TreeDepth
              /\ \A j \in DOMAIN visited : j > i => ~Beneath(visited[j], n)

(* C26 *)

\* The options that take a value.
ValueOptions == {OPT_TYPE, OPT_USER, OPT_NAME, OPT_PATH}

\* The positions of argv, from i on, that hold an option or a positional
\* argument: those that are not the value of the value-taking option before.
RECURSIVE OptionPositions(_, _)
OptionPositions(argv, i) ==
    IF i > Len(argv) THEN {}
    ELSE {i} \cup OptionPositions(argv, IF argv[i] \in ValueOptions THEN i + 2
                                         ELSE i + 1)

\* An argument that is no option stands where an option is looked for, and
\* not first, where it would be the search path.
HasUnknownArgument(argv) ==
    \E i \in OptionPositions(argv, 1) : argv[i] \notin Options /\ i # 1

\* C26 (as amended): ParseCommandLineArgs returns false for every argv in
\* which -type, -user, -name or -path stands last without being the value
\* of the value-taking option before it, and for every argv in which an
\* argument other than the first is neither an option nor such a value.
C26_MissingValueOrUnknownRejected ==
    (/\ ret # <<>>
     /\ \/ /\ Len(call.argv) \in OptionPositions(call.argv, 1)
           /\ call.argv[Len(call.argv)] \in ValueOptions
        \/ HasUnknownArgument(call.argv))
    => ret = <<FALSE>>

\* "r -ls -type" was rejected for the missing value of -type.
C26_Witness ==
    /\ call.argv = <<<<"r">>, OPT_LS, OPT_TYPE>>
    /\ ret = <<FALSE>>
    /\ diag = <<Diagnostic("argument", OPT_TYPE)>>

\* C26 (as stated): ParseCommandLineArgs returns false for every argv whose
\* last argument is -type, -user, -name or -path, and for every argv with
\* an argument that is neither an option, nor a consumed value, nor the
\* search path.
C26_LastValueOptionRejected ==
    (/\ ret # <<>>
     /\ call.argv # <<>>
     /\ \/ call.argv[Len(call.argv)] \in ValueOptions
        \/ HasUnknownArgument(call.argv))
    => ret = <<FALSE>>

(* C27 *)

TypeChars == {"b", "c", "d", "p", "f", "l", "s"}

\* The file type a character of the value of -type names.
TypeNamedBy(c) ==
    IF c = "b" THEN BlockSpecialFile
    ELSE IF c = "c" THEN CharacterSpecialFile
    ELSE IF c = "d" THEN Directory
    ELSE IF c = "p" THEN NamedPipe
    ELSE IF c = "f" THEN RegularFile
    ELSE IF c = "l" THEN SymbolicLink
    ELSE Socket

\* C27: the value of -type is accepted (the loop goes on to the argument
\* after it) if and only if it has one or more characters, each of them one
\* of b c d p f l s; accepted, the type filter is on and the type set is
\* the set of the types its characters name; rejected, the type filter is
\* as it was.
C27_TypeValueAccepted ==
    [][(AtArg(OPT_TYPE) /\ Argv(call.i + 1) # NULL) =>
          LET chars == Deref(Argv(call.i + 1))
              valid == /\ Len(chars) >= 1
                       /\ \A k \in DOMAIN chars : chars[k] \in TypeChars
          IN  /\ valid <=> (ret' = <<>> /\ call'.i = call.i + 2)
              /\ valid => /\ args'.filterByFileType
                          /\ args'.fileTypes =
                                 {TypeNamedBy(chars[k]) : k \in DOMAIN chars}
              /\ ~valid => args'.filterByFileType = args.filterByFileType]_vars

(* C23 *)

\* An allocation has failed in this run.
AllocationFailed == \E i \in DOMAIN fails : IsAllocation(fails[i])

\* The process has ended.
Exited == status # <<>>

\* C23 (as amended): the exit status is zero whenever the command line was
\* accepted and no allocation failed, however many diagnostics of lstat,
\* opendir, readdir and closedir the traversal has produced; it is non-zero
\* only when the command line was rejected before any traversal, or when
\* an allocation failed.
C23_ExitStatus ==
    /\ (Exited /\ ret = <<TRUE>> /\ ~AllocationFailed) => status = <<0>>
    /\ (Exited /\ status # <<0>>) =>
          \/ ret = <<FALSE>> /\ visited = <<>>
          \/ AllocationFailed

\* A traversal of more than the search path has ended with status zero
\* after a system call failed and its diagnostic was printed.
C23_Witness ==
    /\ status = <<0>>
    /\ ret = <<TRUE>>
    /\ Len(visited) >= 2
    /\ fails # <<>>
    /\ ~AllocationFailed
    /\ diag # <<>>

\* C23 (as stated): the exit status is zero whenever the traversal was
\* started and ran to completion, and non-zero only when the command line
\* was rejected before the traversal began.
C23_NonZeroOnlyWhenRejected ==
    /\ (Exited /\ ret = <<TRUE>> /\ ~AllocationFailed) => status = <<0>>
    /\ (Exited /\ status # <<0>>) => (ret = <<FALSE>> /\ visited = <<>>)

(* C24 *)

\* C24: once ParseCommandLineArgs has returned false, SearchFile is not
\* called, no lstat, opendir or other system call of the walk is made,
\* nothing but the usage text is printed to stdout, and the process ends,
\* with the usage text printed and a status that is not zero.
C24_RejectedMeansNoTraversal ==
    ret = <<FALSE>> =>
        /\ stack = <<>>
        /\ visited = <<>>
        /\ opened = <<>>
        /\ fails = <<>>
        /\ \A i \in DOMAIN out : out[i] = UsageLine
        /\ IF Exited THEN out = <<UsageLine>> /\ status # <<0>>
           ELSE ENABLED main_Rejected

\* "r d", with its unknown second argument, was rejected: the usage text
\* is printed and the status is -1.
C24_Witness ==
    /\ call.argv = <<<<"r">>, <<"d">>>>
    /\ ret = <<FALSE>>
    /\ out = <<UsageLine>>
    /\ status = <<-1>>
    /\ visited = <<>>

(* C25 *)

\* C25: once an allocation has failed the process has ended, with a status
\* that is not zero, and no list node with a NULL file name is ever reached
\* by the loop that hands the file names to CombinePath.
C25_AllocationFailureTerminates ==
    /\ AllocationFailed => (Exited /\ status # <<0>>)
    /\ ~AtNullFileName

====
